---- MODULE Spec2Model ----
(***************************************************************************)
(* Model of helpers/neo4j_for_adk.py: the envelope helpers tool_success    *)
(* and tool_error, the recursive converter to_python, result_to_adk, and   *)
(* the Neo4jForADK gateway (send_query, close, the atexit hook).           *)
(*                                                                         *)
(* Python values are tagged records: the field "kind" is the Python type.  *)
(* One behaviour exercises one of three parts of the module, fixed by the  *)
(* variable scenario: "normalize" builds a value and applies to_python to  *)
(* it, "envelope" calls the envelope helpers, "gateway" runs the process   *)
(* with its shared graphdb instance, its threads calling send_query, and   *)
(* its exit.                                                               *)
(***************************************************************************)
EXTENDS Integers, Sequences, FiniteSets, TLC

\* ---------------------------------------------------------------- bounds
\* wrapping steps applied to a leaf value when building a to_python input
MaxDepth == 3
\* records in one query result
MaxRecords == 2
\* send_query calls started during the life of the process
MaxRuns == 3
\* explicit graphdb.close() calls made by the program before it exits
MaxExplicitCloses == 2

\* ---------------------------------------------------------- Python values
NoValue == [kind |-> "absent"]
PyNone == [kind |-> "NoneType"]
PyInt(n) == [kind |-> "int", v |-> n]
PyStr(s) == [kind |-> "str", v |-> s]
PyBool(b) == [kind |-> "bool", v |-> b]
PyDict(f) == [kind |-> "dict", items |-> f]
PyList(s) == [kind |-> "list", elems |-> s]
PyTuple(s) == [kind |-> "tuple", elems |-> s]
EmptyMap == [k \in {} |-> PyNone]

\* neo4j.Record: column name -> raw value
Neo4jRecord(f) == [kind |-> "Record", items |-> f]
\* neo4j.graph.Node: id, labels (a frozenset, given in its iteration order),
\* and the property mapping that dict(node) yields
Node(id, labels, props) ==
    [kind |-> "Node", id |-> id, labels |-> labels, properties |-> props]
\* neo4j.graph.Relationship: id, type, start and end Node, property mapping
Relationship(id, type, start, end, props) ==
    [kind |-> "Relationship", id |-> id, type |-> type,
     start_node |-> start, end_node |-> end, properties |-> props]
\* neo4j.graph.Path: its nodes and its relationships, in walk order
Path(nodes, rels) == [kind |-> "Path", nodes |-> nodes, relationships |-> rels]
\* neo4j.time values, each with the text its iso_format() / str() gives
DateTime(text) == [kind |-> "DateTime", text |-> text]
Date(text) == [kind |-> "Date", text |-> text]
Time(text) == [kind |-> "Time", text |-> text]
Duration(text) == [kind |-> "Duration", text |-> text]

PrimitiveKinds == {"NoneType", "int", "str", "bool"}
TemporalKinds == {"DateTime", "Date", "Time", "Duration"}
NativeKinds == {"Record", "Node", "Relationship", "Path"} \cup TemporalKinds

SeqMap(Op(_), s) == [i \in DOMAIN s |-> Op(s[i])]

\* ------------------------------------------------------- envelope helpers
\* a success helper that spells the status 'ok'
tool_success_ok(key, result) ==
    PyDict([k \in {"status", key} |->
              IF k = key THEN result ELSE PyStr("ok")])

\* {'status': 'success', key: result}: a dict display, where a repeated key
\* keeps the value given last
tool_success(key, result) ==
    PyDict([k \in {"status", key} |->
              IF k = key THEN result ELSE PyStr("success")])

\* {'status': 'error', 'error_message': message}
tool_error(message) ==
    PyDict([k \in {"status", "error_message"} |->
              IF k = "error_message" THEN message ELSE PyStr("error")])

\* -------------------------------------------------------------- to_python
RECURSIVE to_python(_)

\* to_python with the Node and Relationship property mapping copied by
\* dict(value) but not converted
to_python_shallow_properties(value) ==
    CASE value.kind = "Record" ->
           PyDict([k \in DOMAIN value.items |-> to_python(value.items[k])])
      [] value.kind = "dict" ->
           PyDict([k \in DOMAIN value.items |-> to_python(value.items[k])])
      [] value.kind = "list" -> PyList(SeqMap(to_python, value.elems))
      [] value.kind = "Node" ->
           PyDict([id |-> PyInt(value.id),
                   labels |-> PyList(SeqMap(PyStr, value.labels)),
                   properties |-> PyDict(value.properties)])
      [] value.kind = "Relationship" ->
           PyDict([id |-> PyInt(value.id),
                   type |-> PyStr(value.type),
                   start_node |-> PyInt(value.start_node.id),
                   end_node |-> PyInt(value.end_node.id),
                   properties |-> PyDict(value.properties)])
      [] value.kind = "Path" ->
           PyDict([nodes |-> PyList(SeqMap(to_python, value.nodes)),
                   relationships |->
                       PyList(SeqMap(to_python, value.relationships))])
      [] value.kind = "DateTime" -> PyStr(value.text)
      [] value.kind \in {"Date", "Time", "Duration"} -> PyStr(value.text)
      [] OTHER -> value

\* to_python with the list branch wrapping its result in one more list
to_python_nested_list(value) ==
    CASE value.kind = "Record" ->
           PyDict([k \in DOMAIN value.items |-> to_python(value.items[k])])
      [] value.kind = "dict" ->
           PyDict([k \in DOMAIN value.items |-> to_python(value.items[k])])
      [] value.kind = "list" ->
           PyList(<<PyList(SeqMap(to_python, value.elems))>>)
      [] value.kind = "Node" ->
           PyDict([id |-> PyInt(value.id),
                   labels |-> PyList(SeqMap(PyStr, value.labels)),
                   properties |-> to_python(PyDict(value.properties))])
      [] value.kind = "Relationship" ->
           PyDict([id |-> PyInt(value.id),
                   type |-> PyStr(value.type),
                   start_node |-> PyInt(value.start_node.id),
                   end_node |-> PyInt(value.end_node.id),
                   properties |-> to_python(PyDict(value.properties))])
      [] value.kind = "Path" ->
           PyDict([nodes |-> PyList(SeqMap(to_python, value.nodes)),
                   relationships |->
                       PyList(SeqMap(to_python, value.relationships))])
      [] value.kind = "DateTime" -> PyStr(value.text)
      [] value.kind \in {"Date", "Time", "Duration"} -> PyStr(value.text)
      [] OTHER -> value

to_python(value) ==
    CASE value.kind = "Record" ->
           PyDict([k \in DOMAIN value.items |-> to_python(value.items[k])])
      [] value.kind = "dict" ->
           PyDict([k \in DOMAIN value.items |-> to_python(value.items[k])])
      [] value.kind = "list" -> PyList(SeqMap(to_python, value.elems))
      [] value.kind = "Node" ->
           PyDict([id |-> PyInt(value.id),
                   labels |-> PyList(SeqMap(PyStr, value.labels)),
                   properties |-> to_python(PyDict(value.properties))])
      [] value.kind = "Relationship" ->
           PyDict([id |-> PyInt(value.id),
                   type |-> PyStr(value.type),
                   start_node |-> PyInt(value.start_node.id),
                   end_node |-> PyInt(value.end_node.id),
                   properties |-> to_python(PyDict(value.properties))])
      [] value.kind = "Path" ->
           PyDict([nodes |-> PyList(SeqMap(to_python, value.nodes)),
                   relationships |->
                       PyList(SeqMap(to_python, value.relationships))])
      [] value.kind = "DateTime" -> PyStr(value.text)
      [] value.kind \in {"Date", "Time", "Duration"} -> PyStr(value.text)
      [] OTHER -> value

\* ------------------------------------------------- shapes of Python values
RECURSIVE IsNormalized(_)
\* a tree of dicts, lists, strings, numbers, booleans and None
IsNormalized(v) ==
    \/ v.kind \in PrimitiveKinds
    \/ /\ v.kind = "dict"
       /\ \A k \in DOMAIN v.items : IsNormalized(v.items[k])
    \/ /\ v.kind = "list"
       /\ \A i \in DOMAIN v.elems : IsNormalized(v.elems[i])

RECURSIVE ContainsNative(_)
\* a Record, Node, Relationship, Path or temporal object at some depth
ContainsNative(v) ==
    \/ v.kind \in NativeKinds
    \/ /\ v.kind = "dict"
       /\ \E k \in DOMAIN v.items : ContainsNative(v.items[k])
    \/ /\ v.kind \in {"list", "tuple"}
       /\ \E i \in DOMAIN v.elems : ContainsNative(v.elems[i])

\* ------------------------------------------------------------ record.data()
RECURSIVE transform(_)
\* What neo4j's Record.data() does to each value (line 82 calls it on every
\* record before to_python sees it): a Node becomes the dict of its
\* properties, a Relationship the tuple (start properties, type name, end
\* properties), a Path the list alternating node dicts and type names; lists,
\* tuples and dicts are transformed element by element; anything else,
\* temporal values included, is left as it is.
transform(x) ==
    CASE x.kind = "Node" -> transform(PyDict(x.properties))
      [] x.kind = "Relationship" ->
           PyTuple(<<transform(PyDict(x.start_node.properties)),
                     PyStr(x.type),
                     transform(PyDict(x.end_node.properties))>>)
      [] x.kind = "Path" ->
           PyList([i \in 1..(2 * Len(x.nodes) - 1) |->
                     IF i % 2 = 1
                     THEN transform(x.nodes[(i + 1) \div 2])
                     ELSE PyStr(x.relationships[i \div 2].type)])
      [] x.kind = "list" -> PyList(SeqMap(transform, x.elems))
      [] x.kind = "tuple" -> PyTuple(SeqMap(transform, x.elems))
      [] x.kind = "dict" ->
           PyDict([k \in DOMAIN x.items |-> transform(x.items[k])])
      [] OTHER -> x

record_data(record) ==
    PyDict([k \in DOMAIN record.items |-> transform(record.items[k])])

\* ----------------------------------------------------------- result_to_adk
\* result_to_adk that hands the bare records to to_python's caller
\* unconverted
result_to_adk_unconverted(records) ==
    tool_success("query_result", PyList(records))

\* lines 82-83, given the records of the eager result
result_to_adk(records) ==
    LET convert(record) == to_python(record_data(record))
    IN  tool_success("query_result", PyList(SeqMap(convert, records)))

\* str(e) of a caught exception
ExceptionText(e) == PyStr(e.msg)

\* ------------------------------------------------------------------- state
VARIABLES
    scenario,        \* "normalize", "envelope" or "gateway"
    input,           \* normalize: the value given to to_python
    depth,           \* normalize: wrapping steps that built input
    output,          \* normalize: to_python(input)
    output2,         \* normalize: to_python(output)
    envKey,          \* envelope: the key given to tool_success
    envelope,        \* envelope: what the helper returned
    process,         \* gateway: "running" or "exited"
    driverCloses,    \* gateway: calls of graphdb._driver.close()
    explicitCloses,  \* gateway: calls of graphdb.close() by the program
    runs,            \* gateway: send_query calls started
    sessions,        \* gateway: every session the driver handed out
    pc,              \* gateway, per thread: position in send_query
    query,           \* gateway, per thread: cypher_query of the call
    session,         \* gateway, per thread: the local variable session
    result,          \* gateway, per thread: the local variable result
    caught,          \* gateway, per thread: exception raised in the call
    attempts,        \* gateway, per thread: session.run calls of the call
    ret              \* gateway, per thread: what the call returns or raises

harnessVars == <<input, depth, output, output2, envKey, envelope>>
driverVars == <<process, driverCloses, explicitCloses>>
callVars == <<runs, sessions, pc, query, session, result, caught, attempts, ret>>
gatewayVars == <<process, driverCloses, explicitCloses, runs, sessions, pc,
                 query, session, result, caught, attempts, ret>>
vars == <<scenario, input, depth, output, output2, envKey, envelope,
          process, driverCloses, explicitCloses, runs, sessions, pc, query,
          session, result, caught, attempts, ret>>

\* the threads of the host that call graphdb.send_query: two callers give
\* every interleaving of one call's steps with another's
Threads == {1, 2}

\* ------------------------------------------------------------ sample data
Ann == Node(5, <<"Person">>, [name |-> PyStr("Ann")])
Bob == Node(6, <<"Person", "Admin">>,
            [name |-> PyStr("Bob"), born |-> Date("1990-05-17")])
\* a relationship returned on its own carries its end nodes' ids only
Knows == Relationship(9, "KNOWS", Node(5, <<>>, EmptyMap),
                      Node(6, <<>>, EmptyMap),
                      [since |-> DateTime("2020-01-01T00:00:00")])
\* inside a path the relationship is bound to the path's nodes
KnowsInPath == Relationship(9, "KNOWS", Ann, Bob,
                            [since |-> DateTime("2020-01-01T00:00:00")])

Primitives == {PyNone, PyInt(1), PyStr("a"), PyBool(TRUE)}
Temporals == {DateTime("2020-01-01T00:00:00"), Date("1990-05-17"),
              Time("12:30:00"), Duration("P1Y2M")}
Leaves == Primitives \cup Temporals

\* what a Node or Relationship property can hold
IsPropertyValue(v) ==
    \/ v.kind \in PrimitiveKinds \cup TemporalKinds
    \/ /\ v.kind = "list"
       /\ \A i \in DOMAIN v.elems :
            v.elems[i].kind \in PrimitiveKinds \cup TemporalKinds

\* the rows the database holds for each query, in result order
Database ==
    [q1 |-> <<Neo4jRecord([x |-> PyInt(1)]),
              Neo4jRecord([x |-> PyInt(2)]),
              Neo4jRecord([x |-> PyInt(3)])>>,
     q2 |-> <<Neo4jRecord([n |-> Ann, name |-> PyStr("Ann")]),
              Neo4jRecord([n |-> Bob, name |-> PyStr("Bob")]),
              Neo4jRecord([n |-> Ann, name |-> PyStr("Ann")])>>,
     q3 |-> <<Neo4jRecord([r |-> Knows,
                           tags |-> PyList(<<PyStr("a"), Time("12:30:00")>>)]),
              Neo4jRecord([p |-> Path(<<Ann, Bob>>, <<KnowsInPath>>)])>>,
     q4 |-> <<>>]
Queries == DOMAIN Database

Prefix(s, n) == SubSeq(s, 1, IF Len(s) < n THEN Len(s) ELSE n)
\* the records session.run(query) yields
QueryRecords(q) == Prefix(Database[q], MaxRecords)

Exception(msg) == [kind |-> "exception", msg |-> msg]
ErrorMessages == {"ServiceUnavailable", "CypherSyntaxError"}

\* ------------------------------------------------------------------- Init
NoLocals == [t \in Threads |-> NoValue]

GatewayInit ==
    /\ process = "running"
    /\ driverCloses = 0
    /\ explicitCloses = 0
    /\ runs = 0
    /\ sessions = <<>>
    /\ pc = [t \in Threads |-> "idle"]
    /\ query = NoLocals
    /\ session = [t \in Threads |-> 0]
    /\ result = NoLocals
    /\ caught = NoLocals
    /\ attempts = [t \in Threads |-> 0]
    /\ ret = NoLocals

Init ==
    /\ scenario \in {"normalize", "envelope", "gateway"}
    /\ input \in IF scenario = "normalize" THEN Leaves ELSE {NoValue}
    /\ depth = 0
    /\ output = NoValue
    /\ output2 = NoValue
    /\ envKey = ""
    /\ envelope = NoValue
    /\ GatewayInit

\* ------------------------------------------- normalize: building the input
Building == scenario = "normalize" /\ output = NoValue /\ depth < MaxDepth

Grow(v) ==
    /\ input' = v
    /\ depth' = depth + 1
    /\ UNCHANGED <<scenario, output, output2, envKey, envelope>>
    /\ UNCHANGED gatewayVars

WrapList ==
    /\ Building
    /\ \E more \in {<<>>, <<PyInt(1)>>, <<Date("1990-05-17")>>} :
         Grow(PyList(<<input>> \o more))

WrapDict ==
    /\ Building
    /\ \/ Grow(PyDict([a |-> input]))
       \/ Grow(PyDict([a |-> input, b |-> PyStr("a")]))

WrapRecord ==
    /\ Building
    /\ Grow(Neo4jRecord([col |-> input]))

WrapNode ==
    /\ Building
    /\ IsPropertyValue(input)
    /\ Grow(Node(7, <<"Person">>, [p |-> input]))

WrapRelationship ==
    /\ Building
    /\ IsPropertyValue(input)
    /\ Grow(Relationship(9, "KNOWS", Node(5, <<>>, EmptyMap),
                         Node(6, <<>>, EmptyMap), [p |-> input]))

WrapPath ==
    /\ Building
    /\ input.kind = "Node"
    /\ Grow(Path(<<input, Bob>>,
                 <<Relationship(9, "KNOWS", input, Bob, EmptyMap)>>))

\* ------------------------------------------------ normalize: to_python calls
Normalize ==
    /\ scenario = "normalize"
    /\ output = NoValue
    /\ output' = to_python(input)
    /\ UNCHANGED <<scenario, input, depth, output2, envKey, envelope>>
    /\ UNCHANGED gatewayVars

Renormalize ==
    /\ scenario = "normalize"
    /\ output # NoValue
    /\ output2 = NoValue
    /\ output2' = to_python(output)
    /\ UNCHANGED <<scenario, input, depth, output, envKey, envelope>>
    /\ UNCHANGED gatewayVars

\* ------------------------------------------------- envelope: helper calls
PayloadKeys == {"query_result", "rows", "status", "error_message"}
Payloads == {PyList(<<>>), PyList(<<PyDict([x |-> PyInt(1)])>>), PyStr("a")}

CallToolSuccess ==
    /\ scenario = "envelope"
    /\ envelope = NoValue
    /\ \E key \in PayloadKeys, payload \in Payloads :
         /\ envKey' = key
         /\ envelope' = tool_success(key, payload)
    /\ UNCHANGED <<scenario, input, depth, output, output2>>
    /\ UNCHANGED gatewayVars

CallToolError ==
    /\ scenario = "envelope"
    /\ envelope = NoValue
    /\ \E m \in ErrorMessages : envelope' = tool_error(PyStr(m))
    /\ UNCHANGED <<scenario, input, depth, output, output2, envKey>>
    /\ UNCHANGED gatewayVars

\* ------------------------------------------------------ gateway: send_query
NewSession(t) ==
    [owner |-> t, open |-> TRUE, closes |-> 0, users |-> {}, closers |-> {}]

\* a thread enters send_query(q): its locals are those of a fresh frame
CanCall(t) ==
    /\ scenario = "gateway"
    /\ process = "running"
    /\ pc[t] \in {"idle", "returned"}
    /\ runs < MaxRuns

EnterCall(t, q) ==
    /\ runs' = runs + 1
    /\ query' = [query EXCEPT ![t] = q]
    /\ result' = [result EXCEPT ![t] = NoValue]
    /\ attempts' = [attempts EXCEPT ![t] = 0]

\* a gateway that keeps one session on the instance and hands it to every
\* call
OpenSharedSession(t) ==
    /\ CanCall(t)
    /\ \E q \in Queries : EnterCall(t, q)
    /\ IF sessions = <<>>
       THEN sessions' = <<NewSession(t)>>
       ELSE sessions' = [sessions EXCEPT ![1].open = TRUE]
    /\ session' = [session EXCEPT ![t] = 1]
    /\ caught' = [caught EXCEPT ![t] = NoValue]
    /\ ret' = [ret EXCEPT ![t] = NoValue]
    /\ pc' = [pc EXCEPT ![t] = "run"]
    /\ UNCHANGED <<scenario, harnessVars, driverVars>>

\* line 120, self._driver.session() returning a new session
OpenSession(t) ==
    /\ CanCall(t)
    /\ \E q \in Queries : EnterCall(t, q)
    /\ sessions' = Append(sessions, NewSession(t))
    /\ session' = [session EXCEPT ![t] = Len(sessions) + 1]
    /\ caught' = [caught EXCEPT ![t] = NoValue]
    /\ ret' = [ret EXCEPT ![t] = NoValue]
    /\ pc' = [pc EXCEPT ![t] = "run"]
    /\ UNCHANGED <<scenario, harnessVars, driverVars>>

\* line 120, self._driver.session() raising: the statement stands before
\* the try, so the exception leaves send_query
OpenSessionRaises(t) ==
    /\ CanCall(t)
    /\ \E q \in Queries : EnterCall(t, q)
    /\ \E m \in ErrorMessages :
         /\ caught' = [caught EXCEPT ![t] = Exception(m)]
         /\ ret' = [ret EXCEPT ![t] = [kind |-> "raised", msg |-> m]]
    /\ session' = [session EXCEPT ![t] = 0]
    /\ pc' = [pc EXCEPT ![t] = "returned"]
    /\ UNCHANGED <<scenario, harnessVars, driverVars, sessions>>

Use(t) == [sessions EXCEPT ![session[t]].users = @ \cup {t}]

\* session.run inside a with-block that is left before result_to_adk runs
SessionRunThenClose(t) ==
    /\ scenario = "gateway"
    /\ pc[t] = "run"
    /\ attempts' = [attempts EXCEPT ![t] = @ + 1]
    /\ sessions' = [sessions EXCEPT ![session[t]].users = @ \cup {t},
                                    ![session[t]].open = FALSE,
                                    ![session[t]].closes = @ + 1,
                                    ![session[t]].closers = @ \cup {t}]
    /\ result' = [result EXCEPT ![t] =
                    [kind |-> "lazy", records |-> QueryRecords(query[t])]]
    /\ pc' = [pc EXCEPT ![t] = "to_adk"]
    /\ UNCHANGED <<scenario, harnessVars, driverVars, runs, query, session,
                   caught, ret>>

\* lines 122-126, session.run(cypher_query, parameters or {}, ...): the lazy
\* Result, or an exception
SessionRun(t) ==
    /\ scenario = "gateway"
    /\ pc[t] = "run"
    /\ attempts' = [attempts EXCEPT ![t] = @ + 1]
    /\ sessions' = Use(t)
    /\ \/ /\ result' = [result EXCEPT ![t] =
                          [kind |-> "lazy",
                           records |-> QueryRecords(query[t])]]
          /\ pc' = [pc EXCEPT ![t] = "to_adk"]
          /\ UNCHANGED caught
       \/ /\ \E m \in ErrorMessages :
               caught' = [caught EXCEPT ![t] = Exception(m)]
          /\ pc' = [pc EXCEPT ![t] = "except"]
          /\ UNCHANGED result
    /\ UNCHANGED <<scenario, harnessVars, driverVars, runs, query, session,
                   ret>>

\* lines 127 and 81-83, return result_to_adk(result): to_eager_result pulls
\* every record through the session, or raises; the return value waits for
\* the finally clause
ResultToAdk(t) ==
    /\ scenario = "gateway"
    /\ pc[t] = "to_adk"
    /\ sessions' = Use(t)
    /\ \/ /\ result' = [result EXCEPT ![t] =
                          [kind |-> "eager", records |-> result[t].records]]
          /\ ret' = [ret EXCEPT ![t] = result_to_adk(result[t].records)]
          /\ pc' = [pc EXCEPT ![t] = "finally"]
          /\ UNCHANGED caught
       \/ /\ \E m \in ErrorMessages :
               caught' = [caught EXCEPT ![t] = Exception(m)]
          /\ pc' = [pc EXCEPT ![t] = "except"]
          /\ UNCHANGED <<result, ret>>
    /\ UNCHANGED <<scenario, harnessVars, driverVars, runs, query, session,
                   attempts>>

\* an except clause that returns at once, with session.close() placed after
\* the try statement instead of in a finally clause
ExceptSkipsClose(t) ==
    /\ scenario = "gateway"
    /\ pc[t] = "except"
    /\ ret' = [ret EXCEPT ![t] = tool_error(ExceptionText(caught[t]))]
    /\ pc' = [pc EXCEPT ![t] = "returned"]
    /\ UNCHANGED <<scenario, harnessVars, driverVars, runs, sessions, query,
                   session, result, caught, attempts>>

\* an except clause that tries the query once more before giving up
ExceptRetries(t) ==
    /\ scenario = "gateway"
    /\ pc[t] = "except"
    /\ IF attempts[t] < 2
       THEN /\ pc' = [pc EXCEPT ![t] = "run"]
            /\ UNCHANGED ret
       ELSE /\ ret' = [ret EXCEPT ![t] = tool_error(ExceptionText(caught[t]))]
            /\ pc' = [pc EXCEPT ![t] = "finally"]
    /\ UNCHANGED <<scenario, harnessVars, driverVars, runs, sessions, query,
                   session, result, caught, attempts>>

\* lines 128-129, except Exception as e: return tool_error(str(e))
Except(t) ==
    /\ scenario = "gateway"
    /\ pc[t] = "except"
    /\ ret' = [ret EXCEPT ![t] = tool_error(ExceptionText(caught[t]))]
    /\ pc' = [pc EXCEPT ![t] = "finally"]
    /\ UNCHANGED <<scenario, harnessVars, driverVars, runs, sessions, query,
                   session, result, caught, attempts>>

\* lines 130-131, finally: session.close(), then the pending return
SessionClose(t) ==
    /\ scenario = "gateway"
    /\ pc[t] = "finally"
    /\ sessions' = [sessions EXCEPT ![session[t]].open = FALSE,
                                    ![session[t]].closes = @ + 1,
                                    ![session[t]].closers = @ \cup {t}]
    /\ pc' = [pc EXCEPT ![t] = "returned"]
    /\ UNCHANGED <<scenario, harnessVars, driverVars, runs, query, session,
                   result, caught, attempts, ret>>

\* --------------------------------------------------- gateway: close and exit
\* lines 107-108, graphdb.close() called by the program
Close ==
    /\ scenario = "gateway"
    /\ process = "running"
    /\ explicitCloses < MaxExplicitCloses
    /\ explicitCloses' = explicitCloses + 1
    /\ driverCloses' = driverCloses + 1
    /\ UNCHANGED <<scenario, harnessVars, process, callVars>>

\* a process that exits with no hook registered
ExitWithoutHook ==
    /\ scenario = "gateway"
    /\ process = "running"
    /\ \A t \in Threads : pc[t] \in {"idle", "returned"}
    /\ process' = "exited"
    /\ UNCHANGED <<scenario, harnessVars, driverCloses, explicitCloses,
                   callVars>>

\* line 137, atexit.register(graphdb.close): the interpreter exits once its
\* threads are done, and the hook calls close()
AtExit ==
    /\ scenario = "gateway"
    /\ process = "running"
    /\ \A t \in Threads : pc[t] \in {"idle", "returned"}
    /\ process' = "exited"
    /\ driverCloses' = driverCloses + 1
    /\ UNCHANGED <<scenario, harnessVars, explicitCloses, callVars>>

\* ------------------------------------------------------------ specification
Next ==
    \/ WrapList
    \/ WrapDict
    \/ WrapRecord
    \/ WrapNode
    \/ WrapRelationship
    \/ WrapPath
    \/ Normalize
    \/ Renormalize
    \/ CallToolSuccess
    \/ CallToolError
    \/ \E t \in Threads : OpenSession(t)
    \/ \E t \in Threads : OpenSessionRaises(t)
    \/ \E t \in Threads : SessionRun(t)
    \/ \E t \in Threads : ResultToAdk(t)
    \/ \E t \in Threads : Except(t)
    \/ \E t \in Threads : SessionClose(t)
    \/ Close
    \/ AtExit

Spec == Init /\ [][Next]_vars

\* -------------------------------------------------------------- properties
InFlight(t) == pc[t] \in {"run", "to_adk", "except", "finally"}
Returned(t) == scenario = "gateway" /\ pc[t] = "returned"
Success == PyStr("success")
Error == PyStr("error")

RECURSIVE SumCloses(_)
SumCloses(s) == IF s = <<>> THEN 0 ELSE Head(s).closes + SumCloses(Tail(s))

\* C1: no exception propagates out of send_query; an exception raised during
\* session acquisition, execution or materialization comes back as the error
\* envelope carrying that exception's message.
C1_NoExceptionEscapes ==
    \A t \in Threads :
        Returned(t) =>
            /\ ret[t].kind = "dict"
            /\ caught[t] # NoValue =>
                   ret[t] = tool_error(PyStr(caught[t].msg))

\* C2: every send_query call that acquired a session has released it exactly
\* once by the time it returns, on the success and on the error path, and
\* the sessions acquired equal the sessions released plus the calls still
\* under way.
C2_SessionReleasedOnce ==
    scenario = "gateway" =>
        /\ \A t \in Threads :
               (Returned(t) /\ session[t] # 0) =>
                   /\ ~sessions[session[t]].open
                   /\ sessions[session[t]].closes = 1
        /\ \A i \in DOMAIN sessions : sessions[i].closes <= 1
        /\ Len(sessions) =
               SumCloses(sessions) + Cardinality({t \in Threads : InFlight(t)})

C2_Witness ==
    /\ Returned(1) /\ caught[1] # NoValue /\ session[1] # 0
    /\ Returned(2) /\ caught[2] = NoValue /\ session[2] # 0
    /\ Len(sessions) = 2
    /\ SumCloses(sessions) = 2

\* the shape the data model gives an envelope built for payload key `key`
WellFormedEnvelope(e, key) ==
    /\ e.kind = "dict"
    /\ "status" \in DOMAIN e.items
    /\ e.items["status"] \in {Success, Error}
    /\ e.items["status"] = Success =>
           /\ key \in DOMAIN e.items
           /\ "error_message" \notin DOMAIN e.items
    /\ e.items["status"] = Error =>
           /\ "error_message" \in DOMAIN e.items
           /\ key \notin DOMAIN e.items

ReservedKeys == {"status", "error_message"}

\* C3, as stated: every envelope the helpers build, for any payload key, and
\* every envelope send_query returns, has status success or error and holds
\* exactly one of the payload key and error_message, as status says.
C3_AnyKeyWellFormed ==
    /\ envelope # NoValue => WellFormedEnvelope(envelope, envKey)
    /\ \A t \in Threads :
           ret[t].kind = "dict" => WellFormedEnvelope(ret[t], "query_result")

\* C3, amended: the same, for payload keys other than "status" and
\* "error_message".
C3_UnreservedKeyWellFormed ==
    /\ (envelope # NoValue /\ envKey \notin ReservedKeys) =>
           WellFormedEnvelope(envelope, envKey)
    /\ \A t \in Threads :
           ret[t].kind = "dict" => WellFormedEnvelope(ret[t], "query_result")

C3_Witness ==
    /\ scenario = "envelope"
    /\ envKey = "rows"
    /\ envelope = tool_success("rows", PyList(<<PyDict([x |-> PyInt(1)])>>))

C5_ReleasedExactlyOnce ==
    (scenario = "gateway" /\ process = "exited") => driverCloses = 1

\* C5, amended: the handle's close() is called once per explicit close() and
\* exactly once more by the exit hook, so it is called exactly once when the
\* program made no explicit close().
C5_ClosedOncePerCloseAndOnceAtExit ==
    scenario = "gateway" =>
        /\ process = "running" => driverCloses = explicitCloses
        /\ process = "exited" => driverCloses = explicitCloses + 1

C5_Witness ==
    /\ scenario = "gateway"
    /\ process = "exited"
    /\ runs > 0
    /\ explicitCloses = 1
    /\ driverCloses = 2

\* C6: a successful send_query returns the success envelope whose
\* "query_result" is the list, in result order, of to_python applied to each
\* result record, a Node, Relationship or Path column keeping its
\* id/labels/properties, id/type/start_node/end_node/properties or
\* nodes/relationships mapping.
C6_RecordsNormalizedInOrder ==
    \A t \in Threads :
        (Returned(t) /\ caught[t] = NoValue) =>
            ret[t] = tool_success("query_result",
                                  PyList(SeqMap(to_python, result[t].records)))

\* C7: with calls running concurrently, every session is used and released
\* only by the call that acquired it, calls under way hold different
\* sessions, and a call that returns has released its own session.
C7_SessionsNotShared ==
    scenario = "gateway" =>
        /\ \A i \in DOMAIN sessions :
               /\ sessions[i].users \subseteq {sessions[i].owner}
               /\ sessions[i].closers \subseteq {sessions[i].owner}
        /\ \A t \in Threads :
               InFlight(t) =>
                   /\ session[t] \in DOMAIN sessions
                   /\ sessions[session[t]].owner = t
        /\ \A t, u \in Threads :
               (t # u /\ InFlight(t) /\ InFlight(u)) => session[t] # session[u]
        /\ \A t \in Threads :
               (Returned(t) /\ session[t] # 0) =>
                   /\ sessions[session[t]].closers = {t}
                   /\ ~sessions[session[t]].open

C7_Witness ==
    /\ scenario = "gateway"
    /\ pc[1] = "to_adk"
    /\ pc[2] = "finally"
    /\ sessions[session[1]].users = {1}
    /\ sessions[session[2]].users = {2}

\* C8: on a value that is already normalized, to_python changes nothing, so
\* applying it twice gives what applying it once gives.
C8_IdempotentOnNormalized ==
    (scenario = "normalize" /\ output2 # NoValue /\ IsNormalized(input)) =>
        /\ output = input
        /\ output2 = output

C8_Witness ==
    /\ scenario = "normalize"
    /\ output2 # NoValue
    /\ IsNormalized(input)
    /\ input.kind = "dict"
    /\ input.items["a"].kind = "list"
    /\ Len(input.items["a"].elems) = 2

\* C9: in a call on which nothing was raised, the session is not released
\* until every record has been pulled into memory and converted: once the
\* session is closed, the result is eager and the value to return is the
\* success envelope holding a list of dicts, one per record.
C9_MaterializedBeforeRelease ==
    scenario = "gateway" =>
        \A t \in Threads :
            (/\ pc[t] # "idle"
             /\ session[t] # 0
             /\ caught[t] = NoValue
             /\ ~sessions[session[t]].open) =>
                /\ result[t].kind = "eager"
                /\ ret[t].kind = "dict"
                /\ ret[t].items["status"] = Success
                /\ ret[t].items["query_result"].kind = "list"
                /\ Len(ret[t].items["query_result"].elems)
                       = Len(result[t].records)
                /\ \A i \in DOMAIN ret[t].items["query_result"].elems :
                       ret[t].items["query_result"].elems[i].kind = "dict"

C9_Witness ==
    /\ Returned(1)
    /\ caught[1] = NoValue
    /\ ~sessions[session[1]].open
    /\ result[1].kind = "eager"
    /\ Len(ret[1].items["query_result"].elems) = MaxRecords

\* C10: a call acquires at most one session and calls session.run at most
\* once; after a failure it holds the error envelope without having run the
\* query again.
C10_NoRetry ==
    scenario = "gateway" =>
        /\ Len(sessions) <= runs
        /\ \A t \in Threads :
               /\ attempts[t] <= 1
               /\ Cardinality({i \in DOMAIN sessions :
                                 sessions[i].owner = t /\ sessions[i].open}) <= 1
               /\ (pc[t] \in {"finally", "returned"} /\ caught[t] # NoValue
                       /\ session[t] # 0) =>
                      /\ attempts[t] = 1
                      /\ ret[t] = tool_error(PyStr(caught[t].msg))

C10_Witness ==
    /\ Returned(1)
    /\ session[1] # 0
    /\ caught[1] # NoValue
    /\ result[1].kind = "lazy"
    /\ attempts[1] = 1
    /\ ret[1].items["status"] = Error

====
